---- MODULE Spec2Model ----
(***************************************************************************)
(* Model of rust-backend/socketio_bridge.py: the three in-memory pools     *)
(* (SESSION_POOL, USER_POOL, USAGE_POOL), the Socket.IO handlers connect,  *)
(* user-join, usage and disconnect, and the HTTP handler POST /emit.       *)
(*                                                                         *)
(* The handlers are asyncio coroutines: each runs without interruption     *)
(* from one await to the next.  An action of the model is one such         *)
(* uninterrupted stretch of a handler.  The awaits are the backend auth    *)
(* call (http_session.post / resp.json) and sio.emit.                      *)
(***************************************************************************)
EXTENDS Integers, Sequences, FiniteSets, TLC

(* ---- bounds ---- *)
NumSids == 2
NumUsers == 2
NumModels == 2
MaxTime == 2
MaxReq == 2
NumChannels == 2

Sids == 1..NumSids
Users == 1..NumUsers
Models == 1..NumModels
Times == 1..MaxTime
Channels == 1..NumChannels

(* Credentials.  Token u (u a user) is answered 200 with the record of     *)
(* user u; TokNoId is answered 200 with a record without an id; TokBad is  *)
(* answered non-200.  NoAuth is a connect or user-join without a token.    *)
TokNoId == 0
TokBad == NumUsers + 1
NoAuth == 0 - 1
Tokens == 0..(NumUsers + 1)

Missing == "missing"
ReqEvents == {Missing, "note"}
ReqData == {Missing, "x1"}

(* conn[s]       "free" before the transport accepts s, "open" from the    *)
(*               call of connect(s) on, "closed" once disconnect(s) ran.   *)
(* SESSION_POOL  sid -> user record (line 41).                             *)
(* USER_POOL     user id -> list of sids (line 42).                        *)
(* USAGE_POOL    model id -> (sid -> [updated_at]) (line 43).              *)
(* pending       the backend auth calls awaited by connect and user_join;  *)
(*               ord is the position of the call among those of its sid.   *)
(* nreq[s]       the number of auth calls s has issued.                    *)
(* popped[s]     disconnect's local `user` (line 181).                     *)
(* em            the POST /emit call: its request, the list object it      *)
(*               iterates, the sio.emit calls made (log) and the response. *)
(* rooms[r]      the connections the Socket.IO server holds in room        *)
(*               "channel:r"; the server, not this file, keeps it.         *)
(* out           what the last handler step gave back: the value a         *)
(*               user_join returned, the sio.emit a channel_events made.   *)
VARIABLES conn, SESSION_POOL, USER_POOL, USAGE_POOL, pending, nreq, popped, em,
          rooms, out

vars == <<conn, SESSION_POOL, USER_POOL, USAGE_POOL, pending, nreq, popped, em,
          rooms, out>>

(* ---- dictionaries and lists ---- *)
Put(f, k, v) == [x \in DOMAIN f \cup {k} |-> IF x = k THEN v ELSE f[x]]
Del(f, k) == [x \in DOMAIN f \ {k} |-> f[x]]
Contains(list, s) == \E i \in 1..Len(list) : list[i] = s
Without(list, s) == SelectSeq(list, LAMBDA x : x # s)
Elems(list) == {list[i] : i \in 1..Len(list)}
Count(list, s) == Cardinality({i \in 1..Len(list) : list[i] = s})

(* The record the backend returns for a token (status 200).               *)
BackendUser(tok) == [id |-> tok, name |-> tok + 10]

(* SESSION_POOL.pop(sid, None), line 181: the value of the handler's local *)
(* `user`; NoUser stands for None.                                         *)
NoUser == [id |-> NoAuth, name |-> NoAuth]
Popped(SP, s) == IF s \in DOMAIN SP THEN SP[s] ELSE NoUser

(* connect, lines 82-87: append without a membership test.                 *)
AddConnect(UP, u, s) ==
    IF u \in DOMAIN UP THEN Put(UP, u, Append(UP[u], s)) ELSE Put(UP, u, <<s>>)

(* A join that appends nothing to an existing list.                       *)
AddJoinNewKeyOnly(UP, u, s) ==
    IF u \in DOMAIN UP THEN UP ELSE Put(UP, u, <<s>>)

(* user_join, lines 113-119: append only when the sid is not in the list.  *)
AddJoin(UP, u, s) ==
    IF u \in DOMAIN UP
    THEN IF ~Contains(UP[u], s) THEN Put(UP, u, Append(UP[u], s)) ELSE UP
    ELSE Put(UP, u, <<s>>)

(* A cleanup that drops the whole entry of the identity.                  *)
CleanUsersDropsKey(UP, user, s) ==
    IF user # NoUser /\ user.id # 0 /\ user.id \in DOMAIN UP
    THEN Del(UP, user.id)
    ELSE UP

(* disconnect, lines 182-187: the identity cleanup, given the popped user. *)
CleanUsers(UP, user, s) ==
    IF user # NoUser /\ user.id # 0 /\ user.id \in DOMAIN UP
    THEN LET l == Without(UP[user.id], s)
         IN  IF Len(l) = 0 THEN Del(UP, user.id) ELSE Put(UP, user.id, l)
    ELSE UP

(* A usage cleanup without the deletion of emptied resources (line 194).  *)
CleanUsageKeepsEmpty(G, s) == [m \in DOMAIN G |-> Del(G[m], s)]

(* disconnect, lines 190-194: the usage cleanup.                           *)
CleanUsage(G, s) ==
    LET keep == {m \in DOMAIN G : DOMAIN G[m] \ {s} # {}}
    IN  [m \in keep |-> Del(G[m], s)]

(* usage, lines 141-144.                                                   *)
Touch(G, m, s, t) ==
    LET inner == IF m \in DOMAIN G THEN G[m] ELSE << >>
    IN  Put(G, m, Put(inner, s, [updated_at |-> t]))

(* emit_event, lines 211-212: defaults of the request fields.              *)
EventOf(ev) == IF ev = Missing THEN "chat-events" ELSE ev
DataOf(d) == IF d = Missing THEN "{}" ELSE d

(* emit_event, line 217: one call of sio.emit(event, event_data, room=sid).*)
Delivery(s, ev, d) == [sid |-> s, event |-> EventOf(ev), data |-> DataOf(d)]

(* emit_event, line 219: the response after the loop; USER_POOL[user_id]   *)
(* is read again, and a key deleted meanwhile raises KeyError, which line  *)
(* 222-224 turns into a 500.                                               *)
EmitRespond(e, UP) ==
    IF e.uid \in DOMAIN UP
    THEN [e EXCEPT !.pc = "done", !.status = 200, !.sent = Len(UP[e.uid])]
    ELSE [e EXCEPT !.pc = "done", !.status = 500, !.err = "KeyError"]

EmIdle ==
    [pc |-> "idle", uid |-> 0, event |-> Missing, data |-> Missing,
     list |-> << >>, idx |-> 0, alias |-> FALSE, pre |-> << >>,
     log |-> << >>, status |-> 0, sent |-> 0, err |-> "none", interf |-> {}]

(* The emit call in flight iterates the list object it took from USER_POOL.*)
(* Appends change that object in place; disconnect rebinds the key to a    *)
(* new list (line 185) or deletes it (line 187), and the iteration keeps   *)
(* the old object.                                                         *)
(* A finished call keeps its response in em for one step only.            *)
EmSee(UPnew, rebound, kind) ==
    IF em.pc # "sending" THEN EmIdle
    ELSE LET al == em.alias /\ ~rebound
         IN  [em EXCEPT !.alias = al,
                        !.list = IF al THEN UPnew[em.uid] ELSE em.list,
                        !.interf = em.interf \cup kind]

(* No handler has returned anything yet.                                   *)
NoOut ==
    [op |-> "none", sid |-> 0, res |-> "none", ack |-> NoUser, model |-> 0,
     time |-> 0, room |-> 0, to |-> {}, user |-> NoUser, failed |-> {},
     released |-> {}]

Init ==
    /\ conn = [s \in Sids |-> "free"]
    /\ SESSION_POOL = << >>
    /\ USER_POOL = << >>
    /\ USAGE_POOL = << >>
    /\ pending = {}
    /\ nreq = [s \in Sids |-> 0]
    /\ popped = [s \in Sids |-> NoUser]
    /\ em = EmIdle
    /\ rooms = [r \in Channels |-> {}]
    /\ out = NoOut

(* connect(sid, environ, auth), lines 64-77: up to the await of the post.  *)
Connect(s, a) ==
    /\ conn[s] = "free"
    /\ conn' = [conn EXCEPT ![s] = "open"]
    /\ IF a = NoAuth
       THEN UNCHANGED <<pending, nreq>>
       ELSE /\ pending' = pending \cup
                   {[sid |-> s, kind |-> "connect", tok |-> a, ord |-> nreq[s] + 1]}
            /\ nreq' = [nreq EXCEPT ![s] = nreq[s] + 1]
    /\ em' = EmSee(USER_POOL, FALSE, {"auth"})
    /\ UNCHANGED <<SESSION_POOL, USER_POOL, USAGE_POOL, popped>>

(* user_join(sid, data), lines 94-108: up to the await of the post, or the *)
(* early return of line 101 when no token is given.                        *)
UserJoin(s, a) ==
    /\ conn[s] = "open"
    /\ IF a = NoAuth
       THEN UNCHANGED <<pending, nreq>>
       ELSE /\ nreq[s] < MaxReq
            /\ pending' = pending \cup
                   {[sid |-> s, kind |-> "join", tok |-> a, ord |-> nreq[s] + 1]}
            /\ nreq' = [nreq EXCEPT ![s] = nreq[s] + 1]
    /\ em' = EmSee(USER_POOL, FALSE, {"auth"})
    /\ UNCHANGED <<conn, SESSION_POOL, USER_POOL, USAGE_POOL, popped>>

(* A resume that binds the identity without looking at resp.status.        *)
AuthResumeAnyStatus(c, answered) ==
    /\ c \in pending
    /\ pending' = pending \ {c}
    /\ IF answered
       THEN LET user == BackendUser(c.tok)
                UP == IF user.id = 0 THEN USER_POOL
                      ELSE IF c.kind = "connect"
                           THEN AddConnect(USER_POOL, user.id, c.sid)
                           ELSE AddJoin(USER_POOL, user.id, c.sid)
            IN  /\ SESSION_POOL' = Put(SESSION_POOL, c.sid, user)
                /\ USER_POOL' = UP
                /\ em' = EmSee(UP, FALSE, {"auth"})
       ELSE /\ UNCHANGED <<SESSION_POOL, USER_POOL>>
            /\ em' = EmSee(USER_POOL, FALSE, {"auth"})
    /\ UNCHANGED <<conn, USAGE_POOL, nreq, popped>>

(* The rest of connect (lines 78-91) or user_join (lines 109-129) once the *)
(* backend call returns: answered says whether a response arrived (else    *)
(* the call raised or timed out).  The awaits of the post and of           *)
(* resp.json() both precede the first write, so they are one wait here.    *)
(* The handler does not test that the sid is still connected.              *)
AuthResume(c, answered) ==
    /\ c \in pending
    /\ pending' = pending \ {c}
    /\ IF answered /\ c.tok # TokBad
       THEN LET user == BackendUser(c.tok)
                UP == IF user.id = 0 THEN USER_POOL
                      ELSE IF c.kind = "connect"
                           THEN AddConnect(USER_POOL, user.id, c.sid)
                           ELSE AddJoin(USER_POOL, user.id, c.sid)
            IN  /\ SESSION_POOL' = Put(SESSION_POOL, c.sid, user)
                /\ USER_POOL' = UP
                /\ em' = EmSee(UP, FALSE, {"auth"})
       ELSE /\ UNCHANGED <<SESSION_POOL, USER_POOL>>
            /\ em' = EmSee(USER_POOL, FALSE, {"auth"})
    /\ UNCHANGED <<conn, USAGE_POOL, nreq, popped>>

(* A usage that records without looking the connection up.                *)
UsageUnguarded(s, m, t) ==
    /\ conn[s] = "open"
    /\ USAGE_POOL' = IF m # 0 THEN Touch(USAGE_POOL, m, s, t) ELSE USAGE_POOL
    /\ em' = EmSee(USER_POOL, FALSE, {})
    /\ UNCHANGED <<conn, SESSION_POOL, USER_POOL, pending, nreq, popped>>

(* usage(sid, data), lines 132-145; m = 0 is a payload without 'model'.    *)
Usage(s, m, t) ==
    /\ conn[s] = "open"
    /\ USAGE_POOL' = IF s \in DOMAIN SESSION_POOL /\ m # 0
                     THEN Touch(USAGE_POOL, m, s, t)
                     ELSE USAGE_POOL
    /\ em' = EmSee(USER_POOL, FALSE, {})
    /\ UNCHANGED <<conn, SESSION_POOL, USER_POOL, pending, nreq, popped>>

(* disconnect(sid), lines 175-194.                                         *)
Disconnect(s) ==
    /\ conn[s] = "open"
    /\ conn' = [conn EXCEPT ![s] = "closed"]
    /\ SESSION_POOL' = Del(SESSION_POOL, s)
    /\ popped' = [popped EXCEPT ![s] = Popped(SESSION_POOL, s)]
    /\ LET user == Popped(SESSION_POOL, s)
           UP == CleanUsers(USER_POOL, user, s)
           rebound == /\ user.id \in DOMAIN USER_POOL
                      /\ user.id = em.uid
       IN  /\ USER_POOL' = UP
           /\ em' = EmSee(UP, rebound, {"disconnect"})
    /\ USAGE_POOL' = CleanUsage(USAGE_POOL, s)
    /\ UNCHANGED <<pending, nreq>>

(* emit_event(request), lines 208-217: the request is read, the identity   *)
(* looked up, and the handler either answers 404 (line 221) or calls       *)
(* sio.emit for the first element of USER_POOL[user_id] and awaits it.     *)
(* u = 0 is a body without 'user_id'.  The body is a JSON object.          *)
EmitStart(u, ev, d) ==
    /\ em.pc \in {"idle", "done"}
    /\ IF u # 0 /\ u \in DOMAIN USER_POOL
       THEN em' = [EmIdle EXCEPT !.pc = "sending", !.uid = u, !.event = ev,
                                 !.data = d, !.list = USER_POOL[u], !.idx = 1,
                                 !.alias = TRUE, !.pre = USER_POOL[u],
                                 !.log = <<Delivery(USER_POOL[u][1], ev, d)>>]
       ELSE em' = [EmIdle EXCEPT !.pc = "done", !.uid = u, !.event = ev,
                                 !.data = d, !.status = 404]
    /\ UNCHANGED <<conn, SESSION_POOL, USER_POOL, USAGE_POOL, pending, nreq, popped>>

(* emit_event, lines 216-224, from the return of one sio.emit to the next  *)
(* await or to the response.  raised: the awaited sio.emit raised, which   *)
(* the model allows when the target's channel has closed.                  *)
EmitResume(raised) ==
    /\ em.pc = "sending"
    /\ raised => conn[em.list[em.idx]] # "open"
    /\ IF raised
       THEN em' = [em EXCEPT !.pc = "done", !.status = 500, !.err = "delivery"]
       ELSE IF em.idx < Len(em.list)
            THEN em' = [em EXCEPT !.idx = em.idx + 1,
                                  !.log = Append(em.log,
                                      Delivery(em.list[em.idx + 1], em.event, em.data))]
            ELSE em' = EmitRespond(em, USER_POOL)
    /\ UNCHANGED <<conn, SESSION_POOL, USER_POOL, USAGE_POOL, pending, nreq, popped>>

(* Steps that record no output and touch no room. *)
Quiet == UNCHANGED <<rooms, out>>

(* The Socket.IO handlers. *)
Next ==
    \/ \E s \in Sids, a \in Tokens \cup {NoAuth} : Connect(s, a) /\ Quiet
    \/ \E s \in Sids, a \in Tokens \cup {NoAuth} : UserJoin(s, a) /\ Quiet
    \/ \E c \in pending, answered \in BOOLEAN : AuthResume(c, answered) /\ Quiet
    \/ \E s \in Sids, m \in Models \cup {0}, t \in Times : Usage(s, m, t) /\ Quiet
    \/ \E s \in Sids : Disconnect(s) /\ Quiet

Spec == Init /\ [][Next]_vars

(* The handlers that write USER_POOL, with credentials of the users only,  *)
(* running concurrently with POST /emit.                                   *)
NextEmit ==
    \/ \E s \in Sids, a \in Users \cup {NoAuth} : Connect(s, a) /\ Quiet
    \/ \E s \in Sids, a \in Users : UserJoin(s, a) /\ Quiet
    \/ \E c \in pending, answered \in BOOLEAN : AuthResume(c, answered) /\ Quiet
    \/ \E s \in Sids : Disconnect(s) /\ Quiet
    \/ \E u \in Users \cup {0}, ev \in ReqEvents, d \in ReqData :
          EmitStart(u, ev, d) /\ Quiet
    \/ \E raised \in BOOLEAN : EmitResume(raised) /\ Quiet

SpecEmit == Init /\ [][NextEmit]_vars

(* ---- the state the claims speak about ---- *)
InList(u, s) == u \in DOMAIN USER_POOL /\ Contains(USER_POOL[u], s)
InUsage(m, s) == m \in DOMAIN USAGE_POOL /\ s \in DOMAIN USAGE_POOL[m]
Bound(s, u) == s \in DOMAIN SESSION_POOL /\ SESSION_POOL[s].id = u
Absent(s) ==
    /\ s \notin DOMAIN SESSION_POOL
    /\ \A u \in Users : ~InList(u, s)
    /\ \A m \in Models : ~InUsage(m, s)
DisconnectStep(s) == conn[s] = "open" /\ conn'[s] = "closed"

(* C1: in the state right after the disconnect handler of connection c,    *)
(* c is in none of SESSION_POOL, USER_POOL and USAGE_POOL.                 *)
C1_DisconnectRemovesAll ==
    [][\A s \in Sids : DisconnectStep(s) => Absent(s)']_vars

(* C2: a connection is in the list of at most one identity, and in none    *)
(* before an authentication of that connection was started and succeeded.  *)
C2_AtMostOneIdentity ==
    \A s \in Sids :
        /\ Cardinality({u \in Users : InList(u, s)}) <= 1
        /\ nreq[s] = 0 => \A u \in Users : ~InList(u, s)

(* C3: however often a connection authenticates as an identity, the list   *)
(* of that identity holds the connection exactly once.                     *)
C3_AddIdempotent ==
    \A u \in DOMAIN USER_POOL : \A s \in Sids : Count(USER_POOL[u], s) <= 1

(* C9: two connections bound to the same identity are both in its list;    *)
(* the disconnect of one leaves the other in the list and leaves the       *)
(* other's SESSION_POOL binding and USAGE_POOL entries as they were.       *)
C9_BothListed ==
    \A c1, c2 \in Sids : \A u \in Users :
        (c1 # c2 /\ Bound(c1, u) /\ Bound(c2, u)) => (InList(u, c1) /\ InList(u, c2))
C9_OtherUntouched ==
    \A c1, c2 \in Sids : \A u \in Users :
        (c1 # c2 /\ DisconnectStep(c1) /\ InList(u, c2))
        => /\ InList(u, c2)'
           /\ (c2 \in DOMAIN SESSION_POOL) = (c2 \in DOMAIN SESSION_POOL')
           /\ c2 \in DOMAIN SESSION_POOL => SESSION_POOL'[c2] = SESSION_POOL[c2]
           /\ \A m \in Models :
                 /\ InUsage(m, c2) = InUsage(m, c2)'
                 /\ InUsage(m, c2) => USAGE_POOL'[m][c2] = USAGE_POOL[m][c2]
C9_MultiDevice == [][C9_BothListed' /\ C9_OtherUntouched]_vars
C9_Witness ==
    \E c1, c2 \in Sids : \E u \in Users : \E m \in Models :
        /\ c1 # c2 /\ conn[c1] = "closed" /\ popped[c1].id = u
        /\ conn[c2] = "open" /\ Bound(c2, u) /\ InList(u, c2) /\ InUsage(m, c2)
        /\ ~InList(u, c1)

(* C10: no key of USER_POOL maps to an empty list and no key of USAGE_POOL *)
(* maps to an empty dictionary.                                            *)
C10_NoEmptyContainers ==
    /\ \A u \in DOMAIN USER_POOL : Len(USER_POOL[u]) > 0
    /\ \A m \in DOMAIN USAGE_POOL : DOMAIN USAGE_POOL[m] # {}
C10_Witness ==
    \E s \in Sids : \E u \in Users :
        /\ conn[s] = "closed" /\ popped[s].id = u
        /\ u \notin DOMAIN USER_POOL
        /\ USAGE_POOL = << >>
        /\ \E s2 \in Sids : s2 # s /\ s2 \in DOMAIN SESSION_POOL

(* ---- POST /emit ---- *)
LogSids == [i \in 1..Len(em.log) |-> em.log[i].sid]
EmitStartStep == em.pc # "sending" /\ em'.pc # "idle"
NoLive(u) == u = 0 \/ \A s \in Sids : InList(u, s) => conn[s] # "open"

(* C4: with no connect, user-join or disconnect during the call, POST      *)
(* /emit for an identity with connection set S emits the given event and   *)
(* payload once to each connection of S and to no other, answers 200 with  *)
(* sent = |S| and leaves the identity's list as it was.  Stated for the    *)
(* calls whose targets are all open connections.                           *)
C4_QuietEmit ==
    (/\ em.pc = "done" /\ em.interf = {} /\ em.pre # << >>
     /\ \A s \in Elems(em.pre) : conn[s] = "open")
    => /\ em.status = 200
       /\ em.sent = Cardinality(Elems(em.pre))
       /\ \A s \in Sids : Count(LogSids, s) = IF s \in Elems(em.pre) THEN 1 ELSE 0
       /\ \A i \in 1..Len(em.log) :
             /\ em.event # Missing => em.log[i].event = em.event
             /\ em.data # Missing => em.log[i].data = em.data
       /\ em.uid \in DOMAIN USER_POOL /\ USER_POOL[em.uid] = em.pre

(* C5: a POST /emit that races with disconnects only ends with the         *)
(* response for the connection list as it was before them or with the      *)
(* response for the list as it is after them, and never with a 500.        *)
C5_AtomicCleanup ==
    (em.pc = "done" /\ em.interf = {"disconnect"} /\ em.pre # << >>)
    => /\ em.status # 500
       /\ \/ em.status = 200 /\ LogSids = em.pre /\ em.sent = Len(em.pre)
          \/ /\ em.uid \in DOMAIN USER_POOL
             /\ em.status = 200
             /\ LogSids = USER_POOL[em.uid]
             /\ em.sent = Len(USER_POOL[em.uid])
          \/ em.uid \notin DOMAIN USER_POOL /\ em.status = 404

(* C6: the sent count of a 200 response is the number of deliveries the    *)
(* call attempted.                                                         *)
C6_SentCountsAttempts ==
    (em.pc = "done" /\ em.status = 200) => em.sent = Len(em.log)

(* C7: POST /emit for an identity without a live connection (or without    *)
(* user_id) answers 404, emits nothing and changes no pool.                *)
C7_NotFound ==
    [][(EmitStartStep /\ NoLive(em'.uid))
       => (/\ em'.status = 404
           /\ em'.log = << >>
           /\ UNCHANGED <<SESSION_POOL, USER_POOL, USAGE_POOL>>)]_vars

(* C8: a delivery that fails does not keep POST /emit from attempting the  *)
(* deliveries to the remaining connections of the list it iterates.        *)
C8_FailureIsolated ==
    (em.pc = "done" /\ em.pre # << >>) => Len(em.log) = Len(em.list)

(* ---- channel-events ---- *)
(* SESSION_POOL.get(sid, {}), line 168; EmptyUser stands for {}.           *)
EmptyUser == [id |-> 0, name |-> 0]

(* A broadcast that names no sid to skip.                                  *)
ChannelEmitNoSkip(s, ch) ==
    [room |-> ch, skip_sid |-> 0,
     user |-> IF s \in DOMAIN SESSION_POOL THEN SESSION_POOL[s] ELSE EmptyUser]

(* channel_events, lines 162-172: the arguments of the sio.emit call.      *)
ChannelEmit(s, ch) ==
    [room |-> ch, skip_sid |-> s,
     user |-> IF s \in DOMAIN SESSION_POOL THEN SESSION_POOL[s] ELSE EmptyUser]

(* What the Socket.IO server does with emit(room=..., skip_sid=...): it    *)
(* sends to the members of the room but the skipped one.                   *)
RoomDeliver(call) == rooms[call.room] \ {call.skip_sid}

(* channel_events(sid, data), lines 154-172; ch = 0 is a payload without   *)
(* 'channel_id'.                                                           *)
ChannelEvents(s, ch) ==
    /\ conn[s] = "open"
    /\ out' = IF ch # 0
              THEN LET call == ChannelEmit(s, ch)
                   IN  [NoOut EXCEPT !.op = "channel-events", !.sid = s,
                                     !.room = call.room, !.to = RoomDeliver(call),
                                     !.user = call.user]
              ELSE [NoOut EXCEPT !.op = "channel-events", !.sid = s]
    /\ em' = EmSee(USER_POOL, FALSE, {})
    /\ UNCHANGED <<conn, SESSION_POOL, USER_POOL, USAGE_POOL, pending, nreq,
                   popped, rooms>>

(* The server's room membership: a connection enters or leaves a room, and *)
(* leaves every room when it disconnects.                                  *)
EnterRoom(s, r) ==
    /\ conn[s] = "open"
    /\ rooms' = [rooms EXCEPT ![r] = rooms[r] \cup {s}]
    /\ out' = NoOut
    /\ UNCHANGED <<conn, SESSION_POOL, USER_POOL, USAGE_POOL, pending, nreq,
                   popped, em>>
LeaveRoom(s, r) ==
    /\ s \in rooms[r]
    /\ rooms' = [rooms EXCEPT ![r] = rooms[r] \ {s}]
    /\ out' = NoOut
    /\ UNCHANGED <<conn, SESSION_POOL, USER_POOL, USAGE_POOL, pending, nreq,
                   popped, em>>
LeaveAll(s) == rooms' = [r \in Channels |-> rooms[r] \ {s}]
Silent == out' = NoOut /\ UNCHANGED rooms

NextChan ==
    \/ \E s \in Sids, a \in Users \cup {NoAuth} : Connect(s, a) /\ Silent
    \/ \E c \in pending, answered \in BOOLEAN : AuthResume(c, answered) /\ Silent
    \/ \E s \in Sids : Disconnect(s) /\ LeaveAll(s) /\ out' = NoOut
    \/ \E s \in Sids, r \in Channels : EnterRoom(s, r)
    \/ \E s \in Sids, r \in Channels : LeaveRoom(s, r)
    \/ \E s \in Sids, ch \in Channels \cup {0} : ChannelEvents(s, ch)

SpecChan == Init /\ [][NextChan]_vars

(* C11: a channel-events event of connection c for room R goes to the      *)
(* members of R other than c and to nobody else; without channel_id it     *)
(* goes to nobody; no pool changes.                                        *)
C11_BroadcastExclusion ==
    [][out'.op = "channel-events"
       => /\ \A d \in Sids :
                d \in out'.to <=> /\ out'.room \in Channels
                                  /\ d \in rooms[out'.room]
                                  /\ d # out'.sid
          /\ UNCHANGED <<SESSION_POOL, USER_POOL, USAGE_POOL>>]_vars
C11_Witness ==
    /\ out.op = "channel-events"
    /\ out.room \in Channels
    /\ out.sid \in rooms[out.room]
    /\ out.to # {}
    /\ out.sid \notin out.to

(* ---- usage ---- *)
UsageOut(s, m, t) ==
    /\ out' = [NoOut EXCEPT !.op = "usage", !.sid = s, !.model = m, !.time = t]
    /\ UNCHANGED rooms

(* disconnect, lines 189-194: the resources in which the connection had   *)
(* an entry when the handler began.                                        *)
ReleaseOut(s) ==
    /\ out' = [NoOut EXCEPT !.op = "disconnect", !.sid = s,
                            !.released = {m \in Models : InUsage(m, s)}]
    /\ UNCHANGED rooms

NextUsage ==
    \/ \E s \in Sids, a \in Tokens \cup {NoAuth} : Connect(s, a) /\ Silent
    \/ \E c \in pending, answered \in BOOLEAN : AuthResume(c, answered) /\ Silent
    \/ \E s \in Sids, m \in Models \cup {0}, t \in Times :
          Usage(s, m, t) /\ UsageOut(s, m, t)
    \/ \E s \in Sids : Disconnect(s) /\ ReleaseOut(s)

SpecUsage == Init /\ [][NextUsage]_vars

(* The usage event of the step recorded (resource, connection) with its    *)
(* time and left every other entry of USAGE_POOL as it was.                *)
Recorded ==
    /\ out'.model \in DOMAIN USAGE_POOL'
    /\ out'.sid \in DOMAIN USAGE_POOL'[out'.model]
    /\ USAGE_POOL'[out'.model][out'.sid] = [updated_at |-> out'.time]
    /\ \A m \in Models : \A s \in Sids :
          (m # out'.model \/ s # out'.sid)
          => /\ InUsage(m, s)' = InUsage(m, s)
             /\ InUsage(m, s) => USAGE_POOL'[m][s] = USAGE_POOL[m][s]

(* C12 as claimed: a usage event naming a resource, from any live          *)
(* connection, authenticated or not, is recorded.                          *)
C12_AnyConnectionRecorded ==
    [][(out'.op = "usage" /\ out'.model # 0) => Recorded]_vars

(* ---- authentication outcomes ---- *)
(* How a backend call ends: "ok" is a 200, "rejected" another status,      *)
(* "raised" an exception of the post or of resp.json() (timeout included). *)
AuthResult(c, answered) ==
    IF answered /\ c.tok # TokBad THEN "ok"
    ELSE IF answered THEN "rejected" ELSE "raised"

(* What user_join returns to the client: the dictionary of line 126, or    *)
(* None (NoUser) at lines 101 and 129 and when the function falls off its  *)
(* end.  connect returns nothing.                                          *)
JoinReturn(c, answered) ==
    IF c.kind = "join" /\ AuthResult(c, answered) = "ok" /\ BackendUser(c.tok).id # 0
    THEN [id |-> BackendUser(c.tok).id, name |-> BackendUser(c.tok).name]
    ELSE NoUser

(* connect, lines 71-77: no token means no authentication is attempted.    *)
ConnectOut(s, a) ==
    /\ out' = [NoOut EXCEPT !.op = "connect", !.sid = s,
                            !.res = IF a = NoAuth THEN "nocred" ELSE "wait",
                            !.failed = IF a = NoAuth THEN out.failed \cup {s}
                                       ELSE out.failed]
    /\ UNCHANGED rooms

(* user_join, lines 99-108.                                                *)
JoinOut(s, a) ==
    /\ out' = [NoOut EXCEPT !.op = "join", !.sid = s,
                            !.res = IF a = NoAuth THEN "nocred" ELSE "wait",
                            !.failed = IF a = NoAuth THEN out.failed \cup {s}
                                       ELSE out.failed]
    /\ UNCHANGED rooms

(* The end of connect or user_join after the backend call.                 *)
AuthOut(c, answered) ==
    /\ out' = [NoOut EXCEPT !.op = c.kind, !.sid = c.sid,
                            !.res = AuthResult(c, answered),
                            !.ack = JoinReturn(c, answered),
                            !.failed = IF AuthResult(c, answered) = "ok"
                                       THEN out.failed
                                       ELSE out.failed \cup {c.sid}]
    /\ UNCHANGED rooms

DisconnectOut(s) ==
    /\ out' = [NoOut EXCEPT !.op = "disconnect", !.sid = s,
                            !.failed = out.failed \ {s}]
    /\ UNCHANGED rooms

NextAuth ==
    \/ \E s \in Sids, a \in Tokens \cup {NoAuth} : Connect(s, a) /\ ConnectOut(s, a)
    \/ \E s \in Sids, a \in Tokens \cup {NoAuth} : UserJoin(s, a) /\ JoinOut(s, a)
    \/ \E c \in pending, answered \in BOOLEAN :
          AuthResume(c, answered) /\ AuthOut(c, answered)
    \/ \E s \in Sids : Disconnect(s) /\ DisconnectOut(s)

SpecAuth == Init /\ [][NextAuth]_vars

AuthFailed == out'.res \in {"nocred", "rejected", "raised"}

(* C13: a failed authentication (no credential, a status other than 200,   *)
(* an exception or timeout) changes none of the three pools and does not   *)
(* close the connection, and a connection that had a failure and is still  *)
(* open can send another user-join.                                        *)
C13_FailureKeepsState ==
    /\ [][AuthFailed
          => /\ UNCHANGED <<SESSION_POOL, USER_POOL, USAGE_POOL>>
             /\ conn'[out'.sid] = IF out'.op = "connect" /\ out'.res = "nocred"
                                  THEN "open" ELSE conn[out'.sid]]_vars
    /\ [](\A s \in out.failed :
             (conn[s] = "open" /\ nreq[s] < MaxReq)
             => \A u \in Users : ENABLED (UserJoin(s, u) /\ JoinOut(s, u)))
(* A connection that had a failed authentication is still open and a      *)
(* later user-join has bound it to an identity.                            *)
C13_Witness ==
    /\ out.op = "join"
    /\ out.res = "ok"
    /\ out.sid \in out.failed
    /\ conn[out.sid] = "open"
    /\ out.ack.id \in Users
    /\ Bound(out.sid, out.ack.id)
    /\ InList(out.ack.id, out.sid)

(* The binding of connection s in SESSION_POOL and its membership in the   *)
(* lists of USER_POOL are the same before and after the step.              *)
SameBinding(s) ==
    /\ (s \in DOMAIN SESSION_POOL') = (s \in DOMAIN SESSION_POOL)
    /\ s \in DOMAIN SESSION_POOL => SESSION_POOL'[s] = SESSION_POOL[s]
    /\ \A u \in Users : InList(u, s)' = InList(u, s)

(* C14 as claimed: a user-join that has returned gave an acknowledgement   *)
(* with the identity's id and name exactly when its authentication         *)
(* succeeded and the backend's record was bound to the connection, and a   *)
(* user-join without acknowledgement left the connection's binding and     *)
(* memberships as they were.                                               *)
C14_AckIffBound ==
    [][(out'.op = "join" /\ out'.res # "wait")
       => /\ (out'.ack # NoUser)
             <=> /\ out'.res = "ok"
                 /\ out'.sid \in DOMAIN SESSION_POOL'
          /\ out'.ack # NoUser
             => /\ out'.ack.id = SESSION_POOL'[out'.sid].id
                /\ out'.ack.name = SESSION_POOL'[out'.sid].name
          /\ out'.ack = NoUser
             => \A s \in Sids : s = out'.sid => SameBinding(s)]_vars

(* ---- GET /health ---- *)
(* health_check(request), lines 227-233: the body of the JSON response.    *)
health_check ==
    [status |-> "healthy",
     connected_users |-> Cardinality(DOMAIN USER_POOL),
     active_sessions |-> Cardinality(DOMAIN SESSION_POOL)]

(* C15 as claimed: connected_users is the number of identities with at     *)
(* least one connection in USER_POOL, and active_sessions the number of    *)
(* connections accepted and not yet closed, authenticated or not.          *)
C15_HealthCounts ==
    /\ health_check.connected_users =
          Cardinality({u \in Users : \E s \in Sids : InList(u, s)})
    /\ health_check.active_sessions =
          Cardinality({s \in Sids : conn[s] = "open"})

(* ---- responses that arrive late or out of order ---- *)
(* C16 as claimed: once the disconnect handler of a connection has run,    *)
(* no step adds an entry for that connection to SESSION_POOL or to a list  *)
(* of USER_POOL.                                                           *)
C16_NoBindAfterClose ==
    [][\A s \in Sids :
          conn[s] = "closed"
          => /\ s \in DOMAIN SESSION_POOL' => s \in DOMAIN SESSION_POOL
             /\ \A u \in Users : InList(u, s)' => InList(u, s)]_vars

(* C17 as claimed: when the first of two authentication events of an open  *)
(* connection gets its response after the second one has bound the         *)
(* connection, the connection stays bound to the identity of the second.   *)
C17_LaterEventWins ==
    [][\A c \in pending :
          /\ c.ord = 1
          /\ c.tok \in Users
          /\ nreq[c.sid] = 2
          /\ ~ \E d \in pending : d.sid = c.sid /\ d.ord = 2
          /\ conn[c.sid] = "open"
          /\ c.sid \in DOMAIN SESSION_POOL
          /\ SESSION_POOL[c.sid].id \in Users
          /\ c \notin pending'
          => /\ c.sid \in DOMAIN SESSION_POOL'
             /\ SESSION_POOL'[c.sid] = SESSION_POOL[c.sid]]_vars

(* C18: every connection with an entry in USAGE_POOL has an entry in       *)
(* SESSION_POOL and is open, so a disconnected connection has no usage     *)
(* entry in any later state, and no resource is left with an empty set.    *)
C18_UsageOnlyRegistered ==
    /\ \A m \in Models : \A s \in Sids :
          InUsage(m, s) => (s \in DOMAIN SESSION_POOL /\ conn[s] = "open")
    /\ \A m \in DOMAIN USAGE_POOL : DOMAIN USAGE_POOL[m] # {}
(* A disconnect has just released two resources: one is gone, the other    *)
(* remains with the entry of another connection.                           *)
C18_Witness ==
    /\ out.op = "disconnect"
    /\ conn[out.sid] = "closed"
    /\ \E m \in out.released : m \notin DOMAIN USAGE_POOL
    /\ \E m \in out.released :
          /\ m \in DOMAIN USAGE_POOL
          /\ DOMAIN USAGE_POOL[m] # {}
          /\ out.sid \notin DOMAIN USAGE_POOL[m]

(* ---- bound connections are listed ---- *)
(* C20: every connection whose SESSION_POOL record has a non-empty id u    *)
(* is in the list USER_POOL[u], the list POST /emit iterates for u.        *)
C20_BoundIsListed ==
    \A s \in Sids : \A u \in Users : Bound(s, u) => InList(u, s)
(* A connection was bound to one identity and is now bound to another, in  *)
(* whose list it is, after another connection of that identity has         *)
(* disconnected.                                                           *)
C20_Witness ==
    \E s, d \in Sids : \E u, v \in Users :
        /\ s # d /\ u # v
        /\ conn[s] = "open"
        /\ Bound(s, u)
        /\ InList(u, s)
        /\ InList(v, s)
        /\ conn[d] = "closed"
        /\ popped[d].id = u
        /\ ~InList(u, d)

(* ---- every backend call ends ---- *)
(* Whether a call ends does not depend on whose token it carries: one     *)
(* token the backend accepts and one it rejects.                           *)
FairTokens == {NumUsers, TokBad}

(* The backend calls a connection can have made.                           *)
AllCalls ==
    [sid : Sids, kind : {"connect", "join"}, tok : FairTokens, ord : 1..MaxReq]

(* A session without a total timeout: a call the backend never answers     *)
(* never ends.                                                             *)
ClientTimeoutNone(c) == FALSE /\ AuthResume(c, FALSE)

(* aiohttp.ClientTimeout(total=30), lines 49-54: a post that has not       *)
(* returned raises, and the handler's except clause (lines 90-91,          *)
(* 127-129) ends it without a binding.                                     *)
ClientTimeout(c) == AuthResume(c, FALSE)

(* The handlers with the backend's answer and the end by exception or      *)
(* timeout as separate steps: the backend is free never to answer, the     *)
(* timeout is not.                                                         *)
NextFair ==
    \/ \E s \in Sids, a \in FairTokens \cup {NoAuth} : Connect(s, a) /\ Quiet
    \/ \E s \in Sids, a \in FairTokens \cup {NoAuth} : UserJoin(s, a) /\ Quiet
    \/ \E c \in pending : AuthResume(c, TRUE) /\ Quiet
    \/ \E c \in pending : ClientTimeout(c) /\ Quiet
    \/ \E s \in Sids : Disconnect(s) /\ Quiet

SpecFair ==
    /\ Init
    /\ [][NextFair]_vars
    /\ \A c \in AllCalls : WF_vars(ClientTimeout(c) /\ Quiet)

(* C19: every backend call started by connect or user-join ends, with a    *)
(* binding or without one; no call stays pending forever.                  *)
C19_AuthCompletes ==
    \A c \in AllCalls : (c \in pending) ~> (c \notin pending)
(* One connection's only call has ended without a binding, another's has   *)
(* ended with one; both connections are open.                              *)
C19_Witness ==
    \E s, d \in Sids :
        /\ s # d
        /\ conn[s] = "open" /\ conn[d] = "open"
        /\ nreq[s] = 1 /\ nreq[d] = 1
        /\ ~ \E c \in pending : c.sid \in {s, d}
        /\ s \notin DOMAIN SESSION_POOL
        /\ d \in DOMAIN SESSION_POOL
====
